---- MODULE Spec2Model ----
(***************************************************************************)
(* Model of host/specan_ui/specan_ui.py (Project Ubertooth spectrum        *)
(* analyzer UI): the acquisition thread SpecanThread, the widget           *)
(* RenderArea with its frame history and paint routine, and Window.        *)
(*                                                                         *)
(* Two threads are modelled.  The acquisition thread executes              *)
(* SpecanThread.run and, through the callback, RenderArea._new_frame       *)
(* (the callback is a plain bound-method call on line 49).  The UI thread  *)
(* executes Window.__init__, paintEvent, resizes and closeEvent.  Each     *)
(* action is one statement (or one run of statements touching no shared    *)
(* field) of the source; thread positions are named after source lines.    *)
(*                                                                         *)
(* Frames are Python objects with identity: "frames" is the heap of all    *)
(* frame objects in arrival order and a frame reference is its index       *)
(* (0 is None).  Floating point values are modelled as exact rationals     *)
(* <<numerator, denominator>> with a positive denominator.                  *)
(***************************************************************************)
EXTENDS Integers, Sequences, FiniteSets, TLC

(***************************************************************************)
(* Bounds of the model.                                                    *)
(***************************************************************************)
\* Number of frames the frame source yields at most.
MaxFrames == 3
\* The history depth, RenderArea._persisted_frames_depth (350 on line 68),
\* scaled down so that eviction happens within MaxFrames deliveries.
persisted_frames_depth == 2
\* Largest widget width / height drawn as an input of the coordinate maps.
MaxExtent == 3

(***************************************************************************)
(* Display range, RenderArea.__init__ lines 71-75.  Frequencies are in     *)
(* MHz (the source holds Hz as floats: 2.400e9, 2.483e9).                  *)
(***************************************************************************)
low_frequency == 2400
high_frequency == 2483
high_dbm == 0
low_dbm == -100

\* Python's None, for a value that is otherwise a tuple (a size, a
\* coordinate, a path).  A path that is None and an empty QPainterPath are
\* not told apart: line 195-197 draws nothing for either.
None == <<>>

\* The frames the source may yield: mappings frequency -> dBm, among them
\* the empty frame and frames over different sets of frequencies.
FrameSet ==
    { <<>>,
      (2410 :> -60),
      (2410 :> -20) @@ (2450 :> -60),
      (2450 :> -20) }

\* Widget sizes <<width, height>> the toolkit may give the RenderArea.
Sizes == { <<4, 2>>, <<8, 4>> }

(***************************************************************************)
(* Exact rational arithmetic standing for Python float arithmetic.         *)
(***************************************************************************)
RatDiv(a, b) == <<a, b>>
RatMul(q, k) == <<q[1] * k, q[2]>>
RatSub(p, q) == <<p[1] * q[2] - q[1] * p[2], p[2] * q[2]>>
RatEq(p, q) == p[1] * q[2] = q[1] * p[2]
RatLeq(p, q) == p[1] * q[2] <= q[1] * p[2]
RatInt(k) == <<k, 1>>

Range(s) == { s[i] : i \in DOMAIN s }

SetMax(S) == CHOOSE m \in S : \A v \in S : v <= m

\* sorted(d): the keys of a mapping in ascending order.
RECURSIVE SortedSeq(_)
SortedSeq(S) ==
    IF S = {} THEN <<>>
    ELSE LET m == CHOOSE v \in S : \A w \in S : v <= w
         IN  <<m>> \o SortedSeq(S \ {m})

sorted(d) == SortedSeq(DOMAIN d)

(***************************************************************************)
(* RenderArea._hz_to_x and RenderArea._dbm_to_y, lines 205-215.            *)
(***************************************************************************)
\* _hz_to_x with the operands of line 206 exchanged.
hz_to_x_lowdelta(frequency_hz, width) ==
    RatMul(RatDiv(low_frequency - frequency_hz, high_frequency - low_frequency), width)

hz_to_x(frequency_hz, width) ==
    LET delta == frequency_hz - low_frequency
        range == high_frequency - low_frequency
        normalized == RatDiv(delta, range)
    IN  RatMul(normalized, width)

dbm_to_y(dbm, height) ==
    LET delta == high_dbm - dbm
        range == high_dbm - low_dbm
        normalized == RatDiv(delta, range)
    IN  RatMul(normalized, height)

(***************************************************************************)
(* RenderArea._new_frame line 102: keep the last depth entries.            *)
(***************************************************************************)
LastN(s, n) ==
    IF Len(s) <= n THEN s ELSE SubSeq(s, Len(s) - n + 1, Len(s))

\* Line 102 with the slice taken from the front, [:depth].
truncate_head(s) ==
    IF Len(s) <= persisted_frames_depth THEN s ELSE SubSeq(s, 1, persisted_frames_depth)

truncate(s) == LastN(s, persisted_frames_depth)

VARIABLES
    usb_present,        \* whether usb.core.find finds the device
    window,             \* Window.__init__: "init", "opened", "failed", "shown", "closed"
    lookups,            \* number of usb.core.find calls made
    pcT,                \* position of SpecanThread.run
    source_stalled,     \* the frame source blocks for ever
    _stop,              \* SpecanThread._stop
    _stopped,           \* SpecanThread._stopped
    join_timed_out,     \* join(3.0) returned with the thread still alive
    after_stop,         \* callback invocations begun after _stop was set
    frames,             \* heap of frame objects, in arrival order
    _frame,             \* RenderArea._frame (0 is None)
    _persisted_frames,  \* RenderArea._persisted_frames (frame references)
    writer,             \* thread of the latest write to _frame / _persisted_frames
    update_pending,     \* a paint was requested by update() and not yet served
    size,               \* widget size <<width, height>>
    _graph,             \* size of RenderArea._graph, or None
    _reticle,           \* size of RenderArea._reticle, or None
    _path_max,          \* RenderArea._path_max: None or a sequence of points
    pcUI,               \* position of the UI thread
    keys,               \* paint: frequencies still to visit (sorted(self._frame))
    y_now,              \* paint: y of the current frame's value (line 125)
    path_now,           \* paint: local path_now
    path_max,           \* paint: local path_max
    now_src,            \* paint: frame each point of path_now was read from
    frame_at_start,     \* paint: self._frame as read on line 116
    painted_upto,       \* self._frame as read on line 116 of the previous paint
    map_in,             \* coordinate maps: the inputs drawn
    map_out             \* coordinate maps: the results

vars ==
    << usb_present, window, lookups, pcT, source_stalled, _stop, _stopped,
       join_timed_out, after_stop, frames,
       _frame, _persisted_frames, writer, update_pending, size, _graph, _reticle,
       _path_max, pcUI, keys, y_now, path_now, path_max, now_src, frame_at_start,
       painted_upto, map_in, map_out >>

windowVars == << usb_present, window, lookups >>
threadVars == << pcT, source_stalled, after_stop, frames >>
stopVars == << _stop, _stopped, join_timed_out >>
frameVars == << _frame, _persisted_frames, writer >>
widgetVars == << size, _graph, _reticle, _path_max >>
paintVars == << keys, y_now, path_now, path_max, now_src, frame_at_start, painted_upto >>
mapVars == << map_in, map_out >>

\* The state before Window() is constructed (line 247), the widget size
\* and the inputs of the coordinate maps left open.
InitProgram ==
    /\ window = "init"
    /\ lookups = 0
    /\ pcT = "unstarted"
    /\ source_stalled = FALSE
    /\ _stop = FALSE
    /\ _stopped = FALSE
    /\ join_timed_out = FALSE
    /\ after_stop = 0
    /\ frames = <<>>
    /\ _frame = 0
    /\ _persisted_frames = <<>>
    /\ writer = "none"
    /\ update_pending = FALSE
    /\ _graph = None
    /\ _reticle = None
    /\ _path_max = None
    /\ pcUI = "idle"
    /\ keys = <<>>
    /\ y_now = None
    /\ path_now = <<>>
    /\ path_max = <<>>
    /\ now_src = <<>>
    /\ frame_at_start = 0
    /\ painted_upto = 0

Init ==
    /\ InitProgram
    /\ usb_present \in BOOLEAN
    /\ size \in Sizes
    /\ map_in = None
    /\ map_out = None

(***************************************************************************)
(* Window.__init__ and Window._open_device, lines 218-239.                 *)
(***************************************************************************)
\* The result of _open_device for the outcome of usb.core.find: the device
\* wrapper, or the exception raised.
\* _open_device without the test of lines 237-238.
open_device_no_raise(found) == "Ubertooth"

open_device(found) == IF found THEN "Ubertooth" ELSE "Exception"

\* Line 221: the device is looked up; when it is not found the exception
\* leaves Window.__init__ and, uncaught on line 247, ends the program.
OpenDevice ==
    /\ window = "init"
    /\ lookups' = lookups + 1
    /\ window' = IF open_device(usb_present) = "Exception" THEN "failed" ELSE "opened"
    /\ UNCHANGED << usb_present, threadVars, stopVars, frameVars, update_pending, widgetVars,
                    pcUI, paintVars, mapVars >>

\* Line 223 with RenderArea.__init__, lines 59-81: the fields are set on
\* the UI thread and the acquisition thread is started (line 81; line 47
\* creates the generator, which runs nothing before the first next()).
RenderAreaInit ==
    /\ window = "opened"
    /\ window' = "shown"
    /\ _graph' = None
    /\ _reticle' = None
    /\ _frame' = 0
    /\ _persisted_frames' = <<>>
    /\ _path_max' = None
    /\ writer' = "ui"
    /\ pcT' = "l48"
    /\ UNCHANGED << usb_present, lookups, source_stalled, after_stop, frames,
                    stopVars, update_pending, size, pcUI, paintVars, mapVars >>

(***************************************************************************)
(* SpecanThread.run, lines 46-51, with RenderArea._new_frame, lines        *)
(* 99-103, which it calls on its own thread.                               *)
(***************************************************************************)
InNewFrame == pcT \in {"l100", "l101", "l102", "l103"}

\* Line 48: next(frame_source) returns a frame; line 49 calls the callback.
SourceYield ==
    /\ pcT = "l48"
    /\ ~source_stalled
    /\ Len(frames) < MaxFrames
    /\ \E fr \in FrameSet : frames' = Append(frames, fr)
    /\ after_stop' = IF _stop THEN after_stop + 1 ELSE after_stop
    /\ pcT' = "l100"
    /\ UNCHANGED << windowVars, source_stalled, stopVars, frameVars, update_pending,
                    widgetVars, pcUI, paintVars, mapVars >>

\* Line 48: the blocking read of the device never returns again.
SourceStall ==
    /\ pcT = "l48"
    /\ ~source_stalled
    /\ source_stalled' = TRUE
    /\ UNCHANGED << windowVars, pcT, after_stop, frames, stopVars, frameVars,
                    update_pending, widgetVars, pcUI, paintVars, mapVars >>

\* Line 100 made to wait until the requested paint has been served.
NewFrameAssignAfterPaint ==
    /\ pcT = "l100"
    /\ ~update_pending
    /\ _frame' = Len(frames)
    /\ writer' = "acq"
    /\ pcT' = "l101"
    /\ UNCHANGED << windowVars, source_stalled, after_stop, frames, stopVars,
                    _persisted_frames, update_pending, widgetVars, pcUI, paintVars,
                    mapVars >>

\* Line 100: self._frame = frame
NewFrameAssign ==
    /\ pcT = "l100"
    /\ _frame' = Len(frames)
    /\ writer' = "acq"
    /\ pcT' = "l101"
    /\ UNCHANGED << windowVars, source_stalled, after_stop, frames, stopVars,
                    _persisted_frames, update_pending, widgetVars, pcUI, paintVars,
                    mapVars >>

\* Line 101: self._persisted_frames.append(self._frame)
NewFrameAppend ==
    /\ pcT = "l101"
    /\ _persisted_frames' = Append(_persisted_frames, _frame)
    /\ writer' = "acq"
    /\ pcT' = "l102"
    /\ UNCHANGED << windowVars, source_stalled, after_stop, frames, stopVars, _frame,
                    update_pending, widgetVars, pcUI, paintVars, mapVars >>

\* Line 102: self._persisted_frames = self._persisted_frames[-depth:]
NewFrameTruncate ==
    /\ pcT = "l102"
    /\ _persisted_frames' = truncate(_persisted_frames)
    /\ writer' = "acq"
    /\ pcT' = "l103"
    /\ UNCHANGED << windowVars, source_stalled, after_stop, frames, stopVars, _frame,
                    update_pending, widgetVars, pcUI, paintVars, mapVars >>

\* Line 103: self.update() posts a paint request and returns at once.
NewFrameUpdate ==
    /\ pcT = "l103"
    /\ update_pending' = TRUE
    /\ pcT' = "l50"
    /\ UNCHANGED << windowVars, source_stalled, after_stop, frames, stopVars,
                    frameVars, widgetVars, pcUI, paintVars, mapVars >>

\* Lines 50-51 without the break.
RunNeverBreaks ==
    /\ pcT = "l50"
    /\ pcT' = "l48"
    /\ UNCHANGED << windowVars, source_stalled, after_stop, frames, stopVars,
                    frameVars, update_pending, widgetVars, pcUI, paintVars, mapVars >>

\* Lines 50-51: if self._stop: break
RunCheckStop ==
    /\ pcT = "l50"
    /\ pcT' = IF _stop THEN "done" ELSE "l48"
    /\ UNCHANGED << windowVars, source_stalled, after_stop, frames, stopVars,
                    frameVars, update_pending, widgetVars, pcUI, paintVars, mapVars >>

(***************************************************************************)
(* RenderArea.paintEvent, lines 182-203, with _draw_graph, lines 105-142,  *)
(* and _draw_reticle, lines 144-180, on the UI thread.                     *)
(***************************************************************************)
Painting == pcUI \in {"l121", "l124", "l127", "l138", "l144", "l186"}

\* Truth value of a frame reference: None and the empty mapping are false.
truthy(ref) == ref # 0 /\ DOMAIN frames[ref] # {}

\* Line 127: the values recorded for a frequency in the retained frames.
held_values(frequency_hz) ==
    { frames[ref][frequency_hz] :
        ref \in { r \in Range(_persisted_frames) : frequency_hz \in DOMAIN frames[r] } }

PaintLocalsCleared ==
    /\ keys' = <<>>
    /\ y_now' = None
    /\ path_now' = <<>>
    /\ path_max' = <<>>
    /\ now_src' = <<>>

\* Lines 183, 106-116: the paint request is taken, the graph pixmap is
\* (re)created when absent or of another size, and self._frame is tested.
PaintBegin ==
    /\ window = "shown"
    /\ pcUI = "idle"
    /\ update_pending' = FALSE
    /\ _graph' = size
    /\ painted_upto' = frame_at_start
    /\ frame_at_start' = _frame
    /\ pcUI' = IF truthy(_frame) THEN "l121" ELSE "l144"
    /\ UNCHANGED << windowVars, threadVars, stopVars, frameVars, size, _reticle,
                    _path_max, keys, y_now, path_now, path_max, now_src, mapVars >>

\* Lines 117-121: the paths are created and sorted(self._frame) is taken.
DrawGraphSort ==
    /\ pcUI = "l121"
    /\ keys' = sorted(frames[_frame])
    /\ path_now' = <<>>
    /\ path_max' = <<>>
    /\ now_src' = <<>>
    /\ pcUI' = IF keys' = <<>> THEN "l138" ELSE "l124"
    /\ UNCHANGED << windowVars, threadVars, stopVars, frameVars, update_pending,
                    widgetVars, y_now, frame_at_start, painted_upto, mapVars >>

\* Lines 122-125: self._frame[frequency_hz] is read and mapped.
DrawGraphReadNow ==
    /\ pcUI = "l124"
    /\ Head(keys) \in DOMAIN frames[_frame]
    /\ y_now' = dbm_to_y(frames[_frame][Head(keys)], size[2])
    /\ now_src' = Append(now_src, _frame)
    /\ pcUI' = "l127"
    /\ UNCHANGED << windowVars, threadVars, stopVars, frameVars, update_pending,
                    widgetVars, keys, path_now, path_max, frame_at_start,
                    painted_upto, mapVars >>

\* Line 124 raises KeyError: self._frame was replaced by a frame without
\* this frequency.  The exception leaves _draw_graph (line 142 ends the
\* painter) and paintEvent.
DrawGraphKeyError ==
    /\ pcUI = "l124"
    /\ Head(keys) \notin DOMAIN frames[_frame]
    /\ PaintLocalsCleared
    /\ pcUI' = "idle"
    /\ UNCHANGED << windowVars, threadVars, stopVars, frameVars, update_pending,
                    widgetVars, frame_at_start, painted_upto, mapVars >>

\* Lines 127-136: the maximum over the history is taken and both paths
\* get their point.
DrawGraphMax ==
    /\ pcUI = "l127"
    /\ held_values(Head(keys)) # {}
    /\ LET x == hz_to_x(Head(keys), size[1])
           rssi_dbm_max == SetMax(held_values(Head(keys)))
           y_max == dbm_to_y(rssi_dbm_max, size[2])
       IN  /\ path_now' = Append(path_now, <<x, y_now>>)
           /\ path_max' = Append(path_max, <<x, y_max>>)
    /\ keys' = Tail(keys)
    /\ y_now' = None
    /\ pcUI' = IF keys' = <<>> THEN "l138" ELSE "l124"
    /\ UNCHANGED << windowVars, threadVars, stopVars, frameVars, update_pending,
                    widgetVars, now_src, frame_at_start, painted_upto, mapVars >>

\* Line 127 raises ValueError: max() of an empty list, no retained frame
\* holds this frequency.  The exception leaves _draw_graph and paintEvent.
DrawGraphValueError ==
    /\ pcUI = "l127"
    /\ held_values(Head(keys)) = {}
    /\ PaintLocalsCleared
    /\ pcUI' = "idle"
    /\ UNCHANGED << windowVars, threadVars, stopVars, frameVars, update_pending,
                    widgetVars, frame_at_start, painted_upto, mapVars >>

\* Lines 138-142: path_now is drawn and path_max is kept in self._path_max.
DrawGraphEnd ==
    /\ pcUI = "l138"
    /\ _path_max' = path_max
    /\ pcUI' = "l144"
    /\ UNCHANGED << windowVars, threadVars, stopVars, frameVars, update_pending,
                    size, _graph, _reticle, paintVars, mapVars >>

\* Line 145: whether _draw_reticle builds a new overlay.
reticle_stale(reticle, sz) == reticle = None \/ reticle # sz

\* Lines 144-180: the overlay is rebuilt when absent or of another size.
DrawReticle ==
    /\ pcUI = "l144"
    /\ _reticle' = IF reticle_stale(_reticle, size) THEN size ELSE _reticle
    /\ pcUI' = "l186"
    /\ UNCHANGED << windowVars, threadVars, stopVars, frameVars, update_pending,
                    size, _graph, _path_max, paintVars, mapVars >>

\* Lines 186-203: graph, max-hold path and overlay are drawn on the widget.
PaintEnd ==
    /\ pcUI = "l186"
    /\ PaintLocalsCleared
    /\ pcUI' = "idle"
    /\ UNCHANGED << windowVars, threadVars, stopVars, frameVars, update_pending,
                    widgetVars, frame_at_start, painted_upto, mapVars >>

\* The toolkit resizes the widget (between two handlers of the UI thread).
Resize ==
    /\ window = "shown"
    /\ pcUI = "idle"
    /\ \E sz \in Sizes \ {size} : size' = sz
    /\ UNCHANGED << windowVars, threadVars, stopVars, frameVars, update_pending,
                    _graph, _reticle, _path_max, pcUI, paintVars, mapVars >>

(***************************************************************************)
(* Window.closeEvent, lines 241-243, RenderArea.stop_thread, lines 83-84,  *)
(* and SpecanThread.stop, lines 53-56.                                     *)
(***************************************************************************)
\* Lines 242, 84, 54: self._stop = True; then the join of line 55 begins.
CloseEvent ==
    /\ window = "shown"
    /\ pcUI = "idle"
    /\ _stop' = TRUE
    /\ pcUI' = "join"
    /\ UNCHANGED << windowVars, threadVars, _stopped, join_timed_out, frameVars,
                    update_pending, widgetVars, paintVars, mapVars >>

\* Lines 55-56, 243: join(3.0) returns, because the thread has ended or
\* because the three seconds have passed; then self._stopped = True.
JoinReturn ==
    /\ pcUI = "join"
    /\ join_timed_out' = (pcT # "done")
    /\ _stopped' = TRUE
    /\ window' = "closed"
    /\ pcUI' = "idle"
    /\ UNCHANGED << usb_present, lookups, threadVars, _stop, frameVars,
                    update_pending, widgetVars, paintVars, mapVars >>

Next ==
    \/ OpenDevice
    \/ RenderAreaInit
    \/ SourceYield
    \/ SourceStall
    \/ NewFrameAssign
    \/ NewFrameAppend
    \/ NewFrameTruncate
    \/ NewFrameUpdate
    \/ RunCheckStop
    \/ PaintBegin
    \/ DrawGraphSort
    \/ DrawGraphReadNow
    \/ DrawGraphKeyError
    \/ DrawGraphMax
    \/ DrawGraphValueError
    \/ DrawGraphEnd
    \/ DrawReticle
    \/ PaintEnd
    \/ Resize
    \/ CloseEvent
    \/ JoinReturn

Spec == Init /\ [][Next]_vars

(***************************************************************************)
(* Cancellation is checked on the threads' own steps: after closeEvent     *)
(* has begun no paint or resize runs (the UI thread is inside stop(), and  *)
(* the window is closed afterwards), and no paint step writes a variable   *)
(* the acquisition loop or stop() reads.  The scheduler runs a runnable    *)
(* thread, a source that has not stalled yields, and the timeout of        *)
(* join(3.0) passes.                                                       *)
(***************************************************************************)
ThreadStep ==
    \/ SourceYield
    \/ NewFrameAssign
    \/ NewFrameAppend
    \/ NewFrameTruncate
    \/ NewFrameUpdate
    \/ RunCheckStop

StopNext ==
    \/ OpenDevice
    \/ RenderAreaInit
    \/ SourceYield
    \/ SourceStall
    \/ NewFrameAssign
    \/ NewFrameAppend
    \/ NewFrameTruncate
    \/ NewFrameUpdate
    \/ RunCheckStop
    \/ CloseEvent
    \/ JoinReturn

StopSpec == Init /\ [][StopNext]_vars /\ WF_vars(ThreadStep) /\ WF_vars(JoinReturn)

(***************************************************************************)
(* The coordinate maps as pure functions: the frequencies (MHz) or power   *)
(* levels (dBm) a, b and the widget size are drawn from the configured     *)
(* domain, and the maps are applied.                                       *)
(***************************************************************************)
MapInputs ==
    [kind : {"hz"}, a : low_frequency..high_frequency, b : low_frequency..high_frequency]
    \cup [kind : {"dbm"}, a : low_dbm..high_dbm, b : low_dbm..high_dbm]

MapInit ==
    /\ InitProgram
    /\ usb_present = TRUE
    /\ size \in (1..MaxExtent) \X (1..MaxExtent)
    /\ map_in \in MapInputs
    /\ map_out = None

MapHzToX ==
    /\ map_out = None
    /\ map_in.kind = "hz"
    /\ map_out' = <<hz_to_x(map_in.a, size[1]), hz_to_x(map_in.b, size[1])>>
    /\ UNCHANGED << windowVars, threadVars, stopVars, frameVars, update_pending,
                    widgetVars, pcUI, paintVars, map_in >>

MapDbmToY ==
    /\ map_out = None
    /\ map_in.kind = "dbm"
    /\ map_out' = <<dbm_to_y(map_in.a, size[2]), dbm_to_y(map_in.b, size[2])>>
    /\ UNCHANGED << windowVars, threadVars, stopVars, frameVars, update_pending,
                    widgetVars, pcUI, paintVars, map_in >>

MapNext ==
    \/ MapHzToX
    \/ MapDbmToY

MapSpec == MapInit /\ [][MapNext]_vars

(***************************************************************************)
(* Properties.                                                             *)
(***************************************************************************)
\* A paint (paintEvent) returns to the event loop, normally or by an
\* exception.
PaintReturns == Painting /\ pcUI' = "idle"

\* The frame references 1..n in arrival order.
Arrived(n) == [i \in 1..n |-> i]

\* C1: in every reachable state, the states between the statements of
\* _new_frame included, the frame history holds at most the configured
\* depth of frames.
C1_HistoryWithinDepth == Len(_persisted_frames) <= persisted_frames_depth

\* C2: once each call of _new_frame has returned, the frame history is
\* exactly the last min(n, depth) of the n delivered frames, in arrival
\* order (so only the oldest retained frame is ever evicted, and only when
\* the history is full).
C2_HistoryIsLastDelivered ==
    (window \in {"shown", "closed"} /\ ~InNewFrame) =>
        _persisted_frames = LastN(Arrived(Len(frames)), persisted_frames_depth)

C2_Witness ==
    /\ ~InNewFrame
    /\ Len(frames) > persisted_frames_depth
    /\ _persisted_frames = LastN(Arrived(Len(frames)), persisted_frames_depth)

\* The frequencies recorded in the retained frames, ascending.
held_frequencies ==
    SortedSeq(UNION { DOMAIN frames[r] : r \in Range(_persisted_frames) })

\* The max-hold trace of the retained history: at each frequency the
\* maximum recorded for it.
MaxHoldOfHistory ==
    IF held_frequencies = <<>>
    THEN _path_max = None
    ELSE _path_max =
            [i \in 1..Len(held_frequencies) |->
                <<hz_to_x(held_frequencies[i], size[1]),
                  dbm_to_y(SetMax(held_values(held_frequencies[i])), size[2])>>]

\* C3: after every paint the max-hold trace that is drawn (_path_max) has,
\* at each frequency, the maximum dBm recorded for it across the retained
\* frames, whatever frames (empty ones, other frequencies) were delivered.
C3_MaxHoldAfterPaint == [][PaintReturns => MaxHoldOfHistory']_vars

\* C4: every write to _frame and _persisted_frames is made by the UI
\* thread, never by the acquisition thread, and no paint runs while a frame
\* update is partially applied.
C4_UIThreadOwnsDisplayState ==
    /\ writer # "acq"
    /\ ~(Painting /\ pcT \in {"l101", "l102"})

\* C5: for a widget of width > 0 and height > 0, _hz_to_x is linear and
\* non-decreasing over [low_frequency, high_frequency] with low -> 0 and
\* high -> width; _dbm_to_y is linear and monotonic over [low_dbm,
\* high_dbm] with high_dbm -> 0 and low_dbm -> height; in-range inputs map
\* inside the widget.
C5_LinearMonotonicMaps ==
    map_out # None =>
        LET a == map_in.a
            b == map_in.b
            w == size[1]
            h == size[2]
        IN  IF map_in.kind = "hz"
            THEN /\ (a <= b => RatLeq(map_out[1], map_out[2]))
                 /\ RatEq(RatSub(map_out[2], map_out[1]),
                          RatDiv((b - a) * w, high_frequency - low_frequency))
                 /\ (a = low_frequency => RatEq(map_out[1], RatInt(0)))
                 /\ (b = high_frequency => RatEq(map_out[2], RatInt(w)))
                 /\ RatLeq(RatInt(0), map_out[1])
                 /\ RatLeq(map_out[1], RatInt(w))
            ELSE /\ (a <= b => RatLeq(map_out[2], map_out[1]))
                 /\ RatEq(RatSub(map_out[1], map_out[2]),
                          RatDiv((b - a) * h, high_dbm - low_dbm))
                 /\ (a = high_dbm => RatEq(map_out[1], RatInt(0)))
                 /\ (b = low_dbm => RatEq(map_out[2], RatInt(h)))
                 /\ RatLeq(RatInt(0), map_out[1])
                 /\ RatLeq(map_out[1], RatInt(h))

C5_Witness ==
    /\ map_out # None
    /\ map_in.kind = "hz"
    /\ map_in.a = low_frequency
    /\ map_in.b = high_frequency
    /\ size[1] > 1
    /\ RatEq(map_out[2], RatInt(size[1]))

\* C6: when the USB device is not found, Window construction fails before
\* any RenderArea is created: no acquisition thread is started, no frame is
\* delivered, and the device is looked up once, without retry.
C6_DeviceNotFoundIsFatal ==
    ~usb_present =>
        /\ window \in {"init", "failed"}
        /\ lookups = (IF window = "failed" THEN 1 ELSE 0)
        /\ pcT = "unstarted"
        /\ writer = "none"
        /\ frames = <<>>

C6_Witness == ~usb_present /\ window = "failed" /\ lookups = 1 /\ pcT = "unstarted"

\* The source yields no further frame to a thread that waits for one.
SourceQuiet == source_stalled \/ Len(frames) = MaxFrames

\* C7: once stop() has set the stop flag the loop delivers at most one
\* further frame and then exits; while the source keeps yielding the
\* thread terminates; stop() returns even when the source never yields.
C7_Cancellation ==
    /\ [](after_stop <= 1)
    /\ [](after_stop = 1 => pcT # "l48")
    /\ (_stop ~> (pcT = "done" \/ (pcT = "l48" /\ SourceQuiet)))
    /\ (pcUI = "join" ~> _stopped)

C7_Witness == join_timed_out /\ after_stop = 1 /\ pcT = "done"

\* The points of a frame's trace on a widget of the current size.
TraceOf(fr) ==
    [i \in 1..Len(sorted(fr)) |->
        <<hz_to_x(sorted(fr)[i], size[1]), dbm_to_y(fr[sorted(fr)[i]], size[2])>>]

C9_ReticleRegeneratedOnlyOnResize ==
    [][ /\ (_reticle' # _reticle => (_reticle = None \/ _reticle # size))
        /\ (PaintReturns => _reticle' = size') ]_vars

\* C10: whenever _draw_graph runs with a non-empty current frame, that
\* frame is in the retained history, so the max-hold computation ranges
\* over a non-empty set of values.
C10_CurrentFrameRetained ==
    (pcUI \in {"l121", "l124", "l127"} /\ truthy(_frame)) =>
        /\ _frame \in Range(_persisted_frames)
        /\ (pcUI = "l127" => held_values(Head(keys)) # {})
====
